---- MODULE Spec2Model ----
(***************************************************************************)
(* Run lifecycle of the deep-credit-azure Flask service.                   *)
(*                                                                         *)
(* The repository carries two variants of the HTTP application:            *)
(*   app/main.py  (the package started by startup.py)                      *)
(*   main.py      (the WSGI entry point for Azure App Service)             *)
(* Both keep run records in Cosmos DB (app/db.py) with a process-wide      *)
(* dictionary as fallback.  The variant, the presence of a database        *)
(* manager and of WEBHOOK_TOKEN are fixed at process start.                *)
(*                                                                         *)
(* A Python dict is a function from its keys to its values; None is <<>>   *)
(* where an Optional dict is returned and the string NoneStr as a field.   *)
(***************************************************************************)
EXTENDS Integers, Sequences, FiniteSets, TLC

\* ---------------------------------------------------------------- bounds
MaxClock == 3          \* requests served by the process
MaxRuns  == 2          \* run ids the provider hands out

RunIds   == {"r" \o ToString(i) : i \in 1..MaxRuns}
GhostId  == "evt"      \* an id the provider never issued as run id
Queries  == {"", "q1"}
Texts    == {"", "t1"}
NoneStr  == "None"

VARIABLES
  variant,        \* which application module serves the requests
  db_manager,     \* TRUE iff db.initialize_database() returned a manager
  webhook_secret, \* TRUE iff WEBHOOK_TOKEN is set
  cosmos,         \* the Cosmos container: document id -> document
  response_data,  \* the in-memory fallback dict: run_id -> data
  provider,       \* the provider's jobs: run_id -> [status, output_text]
  now,            \* logical clock; one tick per request
  last,           \* the last request served and its HTTP response
  call,           \* the last call of a responses.py function, its outcome
  inflight        \* the status poll that has read and not yet written

vars == <<variant, db_manager, webhook_secret, cosmos, response_data,
          provider, now, last, call, inflight>>

AppMain  == "app/main.py"
RootMain == "main.py"

\* ------------------------------------------------------- dict operations
EmptyDict == <<>>

\* dict.update(u): keys of u override, the others stay
DictUpdate(d, u) ==
  [k \in (DOMAIN d) \cup (DOMAIN u) |-> IF k \in DOMAIN u THEN u[k] ELSE d[k]]

\* d[key] = value
DictSet(d, key, value) ==
  [k \in (DOMAIN d) \cup {key} |-> IF k = key THEN value ELSE d[k]]

\* dict.get(key, default)
DictGet(d, key, default) == IF key \in DOMAIN d THEN d[key] ELSE default

\* Python truthiness of a string-or-None value
Truthy(v) == v # "" /\ v # NoneStr

\* Optional results: None is the empty sequence, a value v is <<v>>
None == <<>>
Some(v) == <<v>>

\* --------------------------------------------------- app/db.py (Cosmos)
DocType == "openai_response"

\* SELECT * FROM c WHERE c.run_id = @run_id AND c.type = @type
\* Mutant of QueryItems: the query leaves out the run_id condition
QueryItems_any(container, run_id) ==
  {id \in DOMAIN container :
     DictGet(container[id], "type", NoneStr) = DocType}

QueryItems(container, run_id) ==
  {id \in DOMAIN container :
     /\ DictGet(container[id], "run_id", NoneStr) = run_id
     /\ DictGet(container[id], "type", NoneStr) = DocType}

\* CosmosDBManager.store_response: the document that is upserted
store_response(container, run_id, data, t) ==
  LET document == DictUpdate([id |-> run_id, run_id |-> run_id,
                              created_at |-> t, updated_at |-> t,
                              type |-> DocType], data)
  IN  DictSet(container, document["id"], document)

\* CosmosDBManager.get_response; ok = FALSE is a Cosmos error (-> None)
get_response(container, run_id, ok) ==
  LET items == QueryItems(container, run_id)
  IN  IF ok /\ items # {}
        THEN Some(container[CHOOSE id \in items : TRUE])
        ELSE None

\* CosmosDBManager.update_response: [ok, container]; ok = FALSE is a
\* Cosmos error in the query or in replace_item (both end in return False)
update_response(container, run_id, updates, t, ok) ==
  LET existing == get_response(container, run_id, ok)
  IN  IF existing = None \/ ~ok
        THEN [ok |-> FALSE, container |-> container]
        ELSE LET doc == DictSet(DictUpdate(existing[1], updates),
                                "updated_at", t)
             IN  [ok |-> TRUE,
                  container |-> DictSet(container, doc["id"], doc)]

\* CosmosDBManager.list_responses with the default limit and offset: the
\* ids of the documents listed; ok = FALSE is a Cosmos error (-> [])
list_responses(container, ok) ==
  IF ok THEN {id \in DOMAIN container :
                DictGet(container[id], "type", NoneStr) = DocType}
        ELSE {}

\* ------------------------------------------- storage helpers (both apps)
\* The Run Store is the pair [db |-> Cosmos container, mem |-> fallback dict]

\* Mutant of store_response_data: the fallback dict is rebound to a new
\* dict holding the one record
store_response_data_reset(S, run_id, data, t, ok) ==
  IF db_manager /\ ok
    THEN [S EXCEPT !.db = store_response(S.db, run_id, data, t)]
    ELSE [S EXCEPT !.mem = DictSet(EmptyDict, run_id, data)]

store_response_data(S, run_id, data, t, ok) ==
  IF db_manager /\ ok
    THEN [S EXCEPT !.db = store_response(S.db, run_id, data, t)]
    ELSE [S EXCEPT !.mem = DictSet(S.mem, run_id, data)]

get_response_data(S, run_id, ok) ==
  LET data == IF db_manager THEN get_response(S.db, run_id, ok) ELSE None
  IN  IF data # None THEN data
      ELSE IF run_id \in DOMAIN S.mem THEN Some(S.mem[run_id]) ELSE None

\* [ok, S]
\* Mutant of update_response_data: an update of a run id that is in
\* neither store puts the updates under it in the in-memory dict
update_response_data_upsert(S, run_id, updates, t, ok) ==
  LET r == update_response(S.db, run_id, updates, t, ok)
  IN  IF db_manager /\ r.ok
        THEN [ok |-> TRUE, S |-> [S EXCEPT !.db = r.container]]
      ELSE IF run_id \in DOMAIN S.mem
        THEN [ok |-> TRUE,
              S |-> [S EXCEPT !.mem = DictSet(S.mem, run_id,
                                        DictUpdate(S.mem[run_id], updates))]]
      ELSE [ok |-> TRUE, S |-> [S EXCEPT !.mem = DictSet(S.mem, run_id,
                                                         updates)]]

update_response_data(S, run_id, updates, t, ok) ==
  LET r == update_response(S.db, run_id, updates, t, ok)
  IN  IF db_manager /\ r.ok
        THEN [ok |-> TRUE, S |-> [S EXCEPT !.db = r.container]]
      ELSE IF run_id \in DOMAIN S.mem
        THEN [ok |-> TRUE,
              S |-> [S EXCEPT !.mem = DictSet(S.mem, run_id,
                                        DictUpdate(S.mem[run_id], updates))]]
      ELSE [ok |-> FALSE, S |-> S]

\* The run ids of the records get_all_responses returns.  list_responses
\* catches its own errors, so the fallback below it is reached only
\* without a manager.
get_all_responses(S, ok) ==
  IF db_manager THEN list_responses(S.db, ok) ELSE DOMAIN S.mem

Store == [db |-> cosmos, mem |-> response_data]

\* Outcomes of one Cosmos call: with no manager there is no call to fail
DbOutcomes == IF db_manager THEN BOOLEAN ELSE {TRUE}

\* ------------------------------------------------------- JSON bodies
JNull    == [kind |-> "null", d |-> EmptyDict]
JList    == [kind |-> "list", d |-> EmptyDict]   \* a non-empty JSON array
JDict(d) == [kind |-> "dict", d |-> d]
\* a body that is not JSON: request.get_json() raises BadRequest on it
JBad     == [kind |-> "bad", d |-> EmptyDict]

\* Python truthiness of a parsed JSON body
JTruthy(j) == j.kind = "list" \/ (j.kind = "dict" /\ DOMAIN j.d # {})

\* The webhook event the provider signs and posts
EventTypes == {"response.completed"}
EventDict(ty, r) ==
  [id |-> GhostId, object |-> "event", created_at |-> 0, type |-> ty,
   data |-> [id |-> r]]

StartBodies ==
  {JNull, JDict(EmptyDict)} \cup {JDict([query |-> q]) : q \in Queries}

PayloadDicts ==
  {EmptyDict}
  \cup {[id |-> r, status |-> s] : r \in RunIds, s \in {"completed", "failed"}}
  \cup {[id |-> r, output_text |-> "t1"] : r \in RunIds}
  \cup {[id |-> r, query |-> "q2"] : r \in RunIds}
  \cup {[run_id |-> r, status |-> "completed"] : r \in RunIds}
  \cup {[response |-> [id |-> r,
                       choices |-> <<[message |-> [content |-> "t1"]]>>]]
          : r \in RunIds}
  \cup {EventDict(ty, r) : ty \in EventTypes, r \in RunIds}

Payloads == {JNull, JList, JBad} \cup {JDict(d) : d \in PayloadDicts}

\* ------------------------------------------------------ HTTP exchange
\* The request served last and the response given to it.
\* rid is the run id the handler worked on, calls the number of provider
\* calls made while serving it, wrote whether the handler reached its write
\* to the Run Store (and so read the clock for it); code, status,
\* openai_status and report are the response; listed is the set of run ids
\* whose records a listing returns.
Exchange(op, rid, calls, wrote, code, status, openai_status, report) ==
  [op |-> op, rid |-> rid, calls |-> calls, wrote |-> wrote,
   code |-> code, status |-> status, openai_status |-> openai_status,
   report |-> report, listed |-> {}]

NA == "-"     \* a field the request or the response does not carry

\* ------------------------------------------------- Provider Gateway
\* responses.start_research(query, webhook_url): the job the provider
\* accepts, or an error.  The provider hands out a fresh id per job.
NextRunId == "r" \o ToString(Cardinality(DOMAIN provider) + 1)

start_research(query) ==
  {[err |-> TRUE, id |-> NA, status |-> NA]}
  \cup (IF Cardinality(DOMAIN provider) < MaxRuns
          THEN {[err |-> FALSE, id |-> NextRunId, status |-> "queued"]}
          ELSE {})

\* client.responses.retrieve(run_id): the job as the provider has it, or
\* an error (unknown id, network, missing OPENAI_API_KEY)
retrieve(run_id) ==
  {[err |-> TRUE, status |-> NA, output_text |-> NA]}
  \cup (IF run_id \in DOMAIN provider
          THEN {[err |-> FALSE, status |-> provider[run_id].status,
                 output_text |-> provider[run_id].output_text]}
          ELSE {})

ProviderPending == {"queued", "in_progress"}
ProviderFinal   == {"completed", "failed", "cancelled"}

\* The provider works on a job: queued -> in_progress -> terminal outcome
ProviderStep(r) ==
  /\ r \in DOMAIN provider
  /\ provider[r].status \in ProviderPending
  /\ \E s \in ({"in_progress"} \cup ProviderFinal) \ {provider[r].status},
        x \in Texts :
       /\ (s # "completed" => x = "")
       /\ provider' = [provider EXCEPT
                         ![r] = [status |-> s, output_text |-> x]]
  /\ UNCHANGED <<variant, db_manager, webhook_secret, cosmos, response_data,
                 now, last, call, inflight>>

Config == <<variant, db_manager, webhook_secret>>

\* A handler's outcome is [S, x]: the Run Store it leaves and the exchange.
\* Time is observed only through datetime.now() on the way to a write, so
\* the clock advances with every request that gets that far.
Serve(S, x) ==
  /\ cosmos' = S.db
  /\ response_data' = S.mem
  /\ last' = x
  /\ now' = IF x.wrote THEN now + 1 ELSE now
  /\ UNCHANGED <<Config, call, inflight>>

\* ------------------------------------------------ app/main.py handlers
\* start(): POST /start
app_start_record(query, t, response) ==
  [status |-> "running", query |-> query, started_at |-> t,
   response |-> NoneStr, openai_status |-> response.status]

\* Mutant of app_start: a submission the provider fails is recorded too,
\* as a failed run under the id the job would have had
app_start_recording(body, okStore) ==
  /\ variant = AppMain
  /\ now < MaxClock
  /\ IF ~JTruthy(body) \/ "query" \notin DOMAIN body.d
       THEN /\ Serve(Store, Exchange("start", NA, 0, FALSE, 400,
                                     NA, NA, NA))
            /\ UNCHANGED provider
       ELSE \E response \in start_research(body.d["query"]) :
              IF response.err
                THEN /\ Serve(store_response_data(Store, NextRunId,
                                [status |-> "failed",
                                 query |-> body.d["query"]], now, okStore),
                              Exchange("start", NA, 1, TRUE, 500,
                                       NA, NA, NA))
                     /\ UNCHANGED provider
                ELSE /\ provider' = DictSet(provider, response.id,
                            [status |-> response.status, output_text |-> ""])
                     /\ Serve(store_response_data(Store, response.id,
                                app_start_record(body.d["query"], now,
                                                 response), now, okStore),
                              Exchange("start", response.id, 1, TRUE, 202,
                                       "started", response.status, NA))

app_start(body, okStore) ==
  /\ variant = AppMain
  /\ now < MaxClock
  /\ IF ~JTruthy(body) \/ "query" \notin DOMAIN body.d
       THEN /\ Serve(Store, Exchange("start", NA, 0, FALSE, 400,
                                     NA, NA, NA))
            /\ UNCHANGED provider
       ELSE \E response \in start_research(body.d["query"]) :
              IF response.err
                THEN /\ Serve(Store, Exchange("start", NA, 1, FALSE, 500,
                                              NA, NA, NA))
                     /\ UNCHANGED provider
                ELSE /\ provider' = DictSet(provider, response.id,
                            [status |-> response.status, output_text |-> ""])
                     /\ Serve(store_response_data(Store, response.id,
                                app_start_record(body.d["query"], now,
                                                 response), now, okStore),
                              Exchange("start", response.id, 1, TRUE, 202,
                                       "started", response.status, NA))

\* get_status(): the updates a successful poll writes.  Lines 185-192 of
\* app/main.py are indented unevenly; they are read as the conditional
\* block they spell out.
app_status_updates(polled, t) ==
  DictUpdate([openai_status |-> polled.status, last_checked |-> t],
             IF polled.status = "completed" /\ Truthy(polled.output_text)
               THEN [status |-> "completed", response |-> polled.output_text,
                     completed_at |-> t]
               ELSE EmptyDict)

\* Mutant of app_poll: a failure of the provider call is answered 500
app_poll_raising(S, run_id, local_data, polled, t, ok2, ok3) ==
  IF polled.err
    THEN [S |-> S,
          x |-> Exchange("status", run_id, 1, FALSE, 500, NA, "error", NA)]
    ELSE LET u == update_response_data(S, run_id,
                      app_status_updates(polled, t), t, ok2)
             updated_data == get_response_data(u.S, run_id, ok3)
         IN  IF updated_data = None
               THEN [S |-> u.S,
                     x |-> Exchange("status", run_id, 1, TRUE, 200,
                                    DictGet(local_data, "status", "unknown"),
                                    "error_none", NA)]
               ELSE [S |-> u.S,
                     x |-> Exchange("status", run_id, 1, TRUE, 200,
                             DictGet(updated_data[1], "status", "unknown"),
                             polled.status,
                             DictGet(updated_data[1], "response", NoneStr))]

\* get_status(): the poll of the provider and what follows it, for a run
\* whose record local_data was found; ok2 and ok3 are the outcomes of the
\* Cosmos update and of the read that follows it.  The answer to a failed
\* poll carries the error text in place of openai_status: "error" stands
\* for the provider's message, "error_none" for the AttributeError's
app_poll(S, run_id, local_data, polled, t, ok2, ok3) ==
  IF polled.err
    THEN [S |-> S,
          x |-> Exchange("status", run_id, 1, FALSE, 200,
                         DictGet(local_data, "status", "unknown"),
                         "error", NA)]
    ELSE LET u == update_response_data(S, run_id,
                      app_status_updates(polled, t), t, ok2)
             updated_data == get_response_data(u.S, run_id, ok3)
         IN  IF updated_data = None
               THEN \* None.get(...) raises inside the inner try: the answer
                    \* is the one for a failed poll, with another message
                    [S |-> u.S,
                     x |-> Exchange("status", run_id, 1, TRUE, 200,
                                    DictGet(local_data, "status", "unknown"),
                                    "error_none", NA)]
               ELSE [S |-> u.S,
                     x |-> Exchange("status", run_id, 1, TRUE, 200,
                             DictGet(updated_data[1], "status", "unknown"),
                             polled.status,
                             DictGet(updated_data[1], "response", NoneStr))]

\* Mutant of app_get_status_result: a record whose status is terminal is
\* answered from the store, without the poll
app_get_status_result_cached(S, run_id, polled, t, ok1, ok2, ok3) ==
  LET local_data == get_response_data(S, run_id, ok1)
  IN  IF local_data = None
        THEN [S |-> S,
              x |-> Exchange("status", run_id, 0, FALSE, 404, NA, NA, NA)]
      ELSE IF DictGet(local_data[1], "status", NA) \in {"completed", "failed"}
        THEN [S |-> S,
              x |-> Exchange("status", run_id, 0, FALSE, 200,
                             local_data[1]["status"], NA,
                             DictGet(local_data[1], "response", NoneStr))]
      ELSE app_poll(S, run_id, local_data[1], polled, t, ok2, ok3)

\* get_status(): GET /status/<run_id>
app_get_status_result(S, run_id, polled, t, ok1, ok2, ok3) ==
  LET local_data == get_response_data(S, run_id, ok1)
  IN  IF local_data = None
        THEN [S |-> S,
              x |-> Exchange("status", run_id, 0, FALSE, 404, NA, NA, NA)]
        ELSE app_poll(S, run_id, local_data[1], polled, t, ok2, ok3)

app_get_status(run_id, ok1, ok2, ok3) ==
  /\ variant = AppMain
  /\ now < MaxClock
  /\ \E polled \in retrieve(run_id) :
       LET r == app_get_status_result(Store, run_id, polled, now,
                                      ok1, ok2, ok3)
       IN  Serve(r.S, r.x)
  /\ UNCHANGED provider

\* Python's `a or b` on string-or-None values
PyOr(a, b) == IF Truthy(a) THEN a ELSE b

AuthKinds == {"none", "wrong", "valid"}

\* A signed body is an event the provider produced
IsEvent(body) ==
  body.kind = "dict" /\ \E ty \in EventTypes, r \in RunIds :
                             body.d = EventDict(ty, r)

\* webhook(): the payload the handler goes on with.  With a secret and a
\* signature that verifies, it is rebuilt from the event; in every other
\* case it is the request's JSON, verified or not.
app_webhook_payload(body, auth) ==
  IF webhook_secret /\ auth = "valid"
    THEN JDict([id |-> body.d["id"], object |-> body.d["object"],
                created_at |-> body.d["created_at"], type |-> body.d["type"],
                data |-> [id |-> body.d["data"]["id"]]])
    ELSE body

\* webhook(): <<run_id, response_text>> extracted from the payload
app_webhook_extract(payload) ==
  IF payload.kind # "dict" THEN <<NoneStr, NoneStr>>
  ELSE IF "response" \in DOMAIN payload.d
    THEN <<DictGet(payload.d["response"], "id", NoneStr),
           IF "choices" \in DOMAIN payload.d["response"]
              /\ Len(payload.d["response"]["choices"]) > 0
             THEN payload.d["response"]["choices"][1]["message"]["content"]
             ELSE NoneStr>>
  ELSE IF "id" \in DOMAIN payload.d
    THEN <<payload.d["id"],
           PyOr(DictGet(payload.d, "output_text", NoneStr),
                DictGet(payload.d, "content", "Webhook received"))>>
  ELSE <<NoneStr, NoneStr>>

\* Mutant of app_webhook_updates: the payload's own fields are merged into
\* the record
app_webhook_updates_merged(payload, response_text, t) ==
  DictUpdate([status |-> "completed",
              response |-> PyOr(response_text,
                                "Response completed via webhook"),
              completed_at |-> t, webhook_payload |-> payload],
             IF payload.kind = "dict" THEN payload.d ELSE EmptyDict)

app_webhook_updates(payload, response_text, t) ==
  [status |-> "completed",
   response |-> PyOr(response_text, "Response completed via webhook"),
   completed_at |-> t, webhook_payload |-> payload]

\* webhook(): POST /webhook
app_webhook_result(S, body, auth, t, ok) ==
  LET payload == app_webhook_payload(body, auth)
      ex == app_webhook_extract(payload)
  IN  IF payload.kind = "bad"
        THEN \* get_json() raises; the outer handler answers 500
             [S |-> S,
              x |-> Exchange("webhook", NA, 0, FALSE, 500, NA, NA, NA)]
      ELSE IF ~Truthy(ex[1])
        THEN [S |-> S,
              x |-> Exchange("webhook", NA, 0, FALSE, 400, NA, NA, NA)]
        ELSE [S |-> update_response_data(S, ex[1],
                       app_webhook_updates(payload, ex[2], t), t, ok).S,
              x |-> Exchange("webhook", ex[1], 0, TRUE, 200,
                             NA, NA, NA)]

app_webhook(body, auth, ok) ==
  /\ variant = AppMain
  /\ now < MaxClock
  /\ auth = "valid" => IsEvent(body)
  /\ LET r == app_webhook_result(Store, body, auth, now, ok)
     IN  Serve(r.S, r.x)
  /\ UNCHANGED provider

\* list_responses(): GET /responses, and debug(): GET /debug; both return
\* the records get_all_responses finds (the pagination defaults cover the
\* whole store here)
Listing(op, ids) ==
  [Exchange(op, NA, 0, FALSE, 200, NA, NA, NA) EXCEPT !.listed = ids]

app_list_responses(ok) ==
  /\ variant = AppMain
  /\ now < MaxClock
  /\ Serve(Store, Listing("responses", get_all_responses(Store, ok)))
  /\ UNCHANGED provider

app_debug(ok) ==
  /\ variant = AppMain
  /\ now < MaxClock
  /\ Serve(Store, Listing("debug", get_all_responses(Store, ok)))
  /\ UNCHANGED provider

\* ---------------------------------------------------- main.py handlers
ModelName == "model"

\* test_storage(): GET /test-storage puts a fixed record and gets it back
TestRunId == "test_123"

test_data(t) ==
  [run_id |-> TestRunId, query |-> "Test query", status |-> "test",
   created_at |-> t]

main_test_storage(okStore, okGet) ==
  /\ variant = RootMain
  /\ now < MaxClock
  /\ LET S1 == store_response_data(Store, TestRunId, test_data(now), now,
                                    okStore)
         retrieved_data == get_response_data(S1, TestRunId, okGet)
     IN  Serve(S1, Exchange("test-storage", TestRunId, 0, TRUE, 200,
                            IF retrieved_data = None THEN NA
                            ELSE DictGet(retrieved_data[1], "status", NA),
                            NA, NA))
  /\ UNCHANGED provider

\* list_responses(): GET /responses
main_list_responses(ok) ==
  /\ variant = RootMain
  /\ now < MaxClock
  /\ Serve(Store, Listing("responses", get_all_responses(Store, ok)))
  /\ UNCHANGED provider

\* debug(): GET /debug reports the keys of the in-memory dict only
main_debug ==
  /\ variant = RootMain
  /\ now < MaxClock
  /\ Serve(Store, Listing("debug", DOMAIN response_data))
  /\ UNCHANGED provider

\* start(): POST /start
main_start_record(query, t, response) ==
  [run_id |-> response.id, query |-> query, status |-> "started",
   created_at |-> t,
   response_object |-> [id |-> response.id, status |-> response.status,
                        model |-> ModelName]]

main_start(body, okStore) ==
  /\ variant = RootMain
  /\ now < MaxClock
  /\ IF ~JTruthy(body) \/ "query" \notin DOMAIN body.d
       THEN /\ Serve(Store, Exchange("start", NA, 0, FALSE, 400,
                                     NA, NA, NA))
            /\ UNCHANGED provider
       ELSE \E response \in start_research(body.d["query"]) :
              IF response.err
                THEN /\ Serve(Store, Exchange("start", NA, 1, FALSE, 500,
                                              NA, NA, NA))
                     /\ UNCHANGED provider
                ELSE /\ provider' = DictSet(provider, response.id,
                            [status |-> response.status, output_text |-> ""])
                     /\ Serve(store_response_data(Store, response.id,
                                main_start_record(body.d["query"], now,
                                                  response), now, okStore),
                              Exchange("start", response.id, 1, TRUE, 200,
                                       "started", NA, NA))

\* get_status(): the updates a successful poll writes
main_status_updates(run_id, polled, t) ==
  [status |-> polled.status, updated_at |-> t,
   response_object |-> [id |-> run_id, status |-> polled.status,
                        model |-> ModelName,
                        output_text |-> polled.output_text,
                        error |-> IF polled.status = "failed"
                                    THEN "error" ELSE NoneStr]]

\* get_status(): the poll of the provider and what follows it, for a run
\* whose record data was found
\* Mutant of main_poll: a failed poll marks the record unknown
main_poll_marking(S, run_id, data, polled, t, ok2) ==
  IF polled.err
    THEN [S |-> update_response_data(S, run_id,
                   [status |-> "unknown", updated_at |-> t], t, ok2).S,
          x |-> Exchange("status", run_id, 1, TRUE, 200,
                         "unknown", "error", "")]
    ELSE [S |-> update_response_data(S, run_id,
                   main_status_updates(run_id, polled, t), t, ok2).S,
          x |-> Exchange("status", run_id, 1, TRUE, 200,
                         polled.status, polled.status, polled.output_text)]

main_poll(S, run_id, data, polled, t, ok2) ==
  IF polled.err
    THEN [S |-> S,
          x |-> Exchange("status", run_id, 1, FALSE, 200,
                         DictGet(data, "status", "unknown"), "error", "")]
    ELSE [S |-> update_response_data(S, run_id,
                   main_status_updates(run_id, polled, t), t, ok2).S,
          x |-> Exchange("status", run_id, 1, TRUE, 200,
                         polled.status, polled.status, polled.output_text)]

\* Mutant of main_get_status_result: the record is not looked for before
\* the provider is polled
main_get_status_result_unchecked(S, run_id, polled, t, ok1, ok2) ==
  LET data == get_response_data(S, run_id, ok1)
  IN  main_poll(S, run_id, IF data = None THEN EmptyDict ELSE data[1],
                polled, t, ok2)

\* get_status(): GET /status/<run_id>
main_get_status_result(S, run_id, polled, t, ok1, ok2) ==
  LET data == get_response_data(S, run_id, ok1)
  IN  IF data = None
        THEN [S |-> S,
              x |-> Exchange("status", run_id, 0, FALSE, 404, NA, NA, NA)]
        ELSE main_poll(S, run_id, data[1], polled, t, ok2)

main_get_status(run_id, ok1, ok2) ==
  /\ variant = RootMain
  /\ now < MaxClock
  /\ \E polled \in retrieve(run_id) :
       LET r == main_get_status_result(Store, run_id, polled, now,
                                       ok1, ok2)
       IN  Serve(r.S, r.x)
  /\ UNCHANGED provider

main_webhook_updates(data, t) ==
  [webhook_received_at |-> t, webhook_data |-> data,
   status |-> DictGet(data.d, "status", "unknown")]

\* webhook(): POST /webhook
main_webhook_result(S, body, auth, t, ok) ==
  LET run_id == PyOr(DictGet(body.d, "id", NoneStr),
                     DictGet(body.d, "run_id", NoneStr))
  IN  IF webhook_secret /\ auth # "valid"
        THEN [S |-> S,
              x |-> Exchange("webhook", NA, 0, FALSE, 401, NA, NA, NA)]
      ELSE IF body.kind = "bad"
        THEN \* get_json() raises; the outer handler answers 500
             [S |-> S,
              x |-> Exchange("webhook", NA, 0, FALSE, 500, NA, NA, NA)]
      ELSE IF ~JTruthy(body)
        THEN [S |-> S,
              x |-> Exchange("webhook", NA, 0, FALSE, 400, NA, NA, NA)]
      ELSE IF body.kind # "dict"
        THEN \* list.get raises AttributeError; the handler answers 500
             [S |-> S,
              x |-> Exchange("webhook", NA, 0, FALSE, 500, NA, NA, NA)]
      ELSE IF ~Truthy(run_id)
        THEN [S |-> S,
              x |-> Exchange("webhook", NA, 0, FALSE, 400, NA, NA, NA)]
      ELSE [S |-> update_response_data(S, run_id,
                     main_webhook_updates(body, t), t, ok).S,
            x |-> Exchange("webhook", run_id, 0, TRUE, 200,
                           NA, NA, NA)]

main_webhook(body, auth, ok) ==
  /\ variant = RootMain
  /\ now < MaxClock
  /\ LET r == main_webhook_result(Store, body, auth, now, ok)
     IN  Serve(r.S, r.x)
  /\ UNCHANGED provider

\* ------------------------------------------- requests no route matches
\* /edit and /rollback, with the run id the request names.
\* app/main.py declares no matching rule: Flask answers 404 to any method.
UnroutedPaths == {"edit", "rollback"}
Methods == {"GET", "POST"}

app_not_found(path, run_id) ==
  /\ variant = AppMain
  /\ now < MaxClock
  /\ Serve(Store, Exchange(path, run_id, 0, FALSE, 404, NA, NA, NA))
  /\ UNCHANGED provider

\* catch_all(path): main.py's rule /<path:path> takes GET only and answers
\* 200 "Route /<path> not found"; any other method on it is answered 405
catch_all(path, method, run_id) ==
  /\ variant = RootMain
  /\ now < MaxClock
  /\ Serve(Store, Exchange(path, run_id, 0, FALSE,
                           IF method = "GET" THEN 200 ELSE 405,
                           NA, NA, NA))
  /\ UNCHANGED provider

\* ------------------------------------------- a status poll in flight
\* get_status() is not atomic: between its reads and its write, another
\* worker can serve a request.  The handler is split where
\* CosmosDBManager.update_response has read `existing` and has not yet
\* called replace_item; with no manager the split is before the update
\* of the in-memory dict.
NoRequest ==
  [rid |-> NA, local_data |-> EmptyDict, polled |-> [err |-> TRUE],
   existing |-> None, updates |-> EmptyDict, t |-> 0]

\* update_response from replace_item on, given the document it read
replace_item(container, existing, updates, t, ok) ==
  IF existing = None \/ ~ok
    THEN [ok |-> FALSE, container |-> container]
    ELSE LET doc == DictSet(DictUpdate(existing[1], updates),
                            "updated_at", t)
         IN  [ok |-> TRUE, container |-> DictSet(container, doc["id"], doc)]

\* update_response_data from replace_item on: [ok, S]
finish_update(S, run_id, existing, updates, t, ok) ==
  LET r == replace_item(S.db, existing, updates, t, ok)
  IN  IF db_manager /\ r.ok
        THEN [ok |-> TRUE, S |-> [S EXCEPT !.db = r.container]]
      ELSE IF run_id \in DOMAIN S.mem
        THEN [ok |-> TRUE,
              S |-> [S EXCEPT !.mem = DictSet(S.mem, run_id,
                                        DictUpdate(S.mem[run_id], updates))]]
      ELSE [ok |-> FALSE, S |-> S]

\* get_status() up to the read of update_response.  A request that ends
\* before its write (404, failed poll) is answered at once.
PollBegins(run_id, ok1, ok2) ==
  /\ inflight = NoRequest
  /\ now < MaxClock
  /\ LET local_data == get_response_data(Store, run_id, ok1)
     IN  IF local_data = None
           THEN /\ last' = Exchange("status", run_id, 0, FALSE, 404,
                                    NA, NA, NA)
                /\ UNCHANGED <<inflight, now>>
           ELSE \E polled \in retrieve(run_id) :
                  IF polled.err
                    THEN /\ last' = Exchange("status", run_id, 1, FALSE, 200,
                                      DictGet(local_data[1], "status",
                                              "unknown"),
                                      "error",
                                      IF variant = AppMain THEN NA ELSE "")
                         /\ UNCHANGED <<inflight, now>>
                    ELSE /\ inflight' =
                              [rid |-> run_id, local_data |-> local_data[1],
                               polled |-> polled,
                               existing |-> IF db_manager
                                  THEN get_response(cosmos, run_id, ok2)
                                  ELSE None,
                               updates |-> IF variant = AppMain
                                  THEN app_status_updates(polled, now)
                                  ELSE main_status_updates(run_id, polled,
                                                           now),
                               t |-> now]
                         /\ now' = now + 1
                         /\ UNCHANGED last
  /\ UNCHANGED <<Config, call, cosmos, response_data, provider>>

\* get_status() from replace_item to the response
PollEnds(ok2, ok3) ==
  /\ inflight # NoRequest
  /\ LET u == finish_update(Store, inflight.rid, inflight.existing,
                            inflight.updates, inflight.t, ok2)
         updated_data == get_response_data(u.S, inflight.rid, ok3)
     IN  /\ cosmos' = u.S.db
         /\ response_data' = u.S.mem
         /\ last' =
              IF variant = RootMain
                THEN Exchange("status", inflight.rid, 1, TRUE, 200,
                              inflight.polled.status, inflight.polled.status,
                              inflight.polled.output_text)
              ELSE IF updated_data = None
                THEN Exchange("status", inflight.rid, 1, TRUE, 200,
                              DictGet(inflight.local_data, "status",
                                      "unknown"),
                              "error_none", NA)
              ELSE Exchange("status", inflight.rid, 1, TRUE, 200,
                            DictGet(updated_data[1], "status", "unknown"),
                            inflight.polled.status,
                            DictGet(updated_data[1], "response", NoneStr))
  /\ inflight' = NoRequest
  /\ UNCHANGED <<Config, call, provider, now>>

\* -------------------------------------------------- app/responses.py
\* What one call of the OpenAI client can end in: an answer, or one of the
\* client's exceptions.  "Timeout" stands for every exception that is not
\* one of the three classes generate_openai_response names.
Failures == {"RateLimitError", "AuthenticationError", "APIError", "Timeout"}
Answers == {"json", "text"}   \* content that parses as JSON, or does not
AnalysisTypes == {"basic", "detailed", "custom"}

\* The outcome of a function call: a returned value, or a raised exception
\* with its class (kind) and its message.  A message is the sequence of
\* its fixed text and the upstream messages embedded in it; str(e) of a
\* client exception is written as the name of the failure.
Returned(value) ==
  [raised |-> FALSE, kind |-> NA, message |-> <<>>, value |-> value]
Raised(kind, message) ==
  [raised |-> TRUE, kind |-> kind, message |-> message, value |-> NA]

\* validate_openai_setup(); v is what the test request ends in
validate_openai_setup(api_key, v) ==
  IF ~api_key
    THEN Raised("Exception",
                <<"OpenAI API key not found in environment variables">>)
  ELSE IF v \in Failures
    THEN Raised("Exception", <<"OpenAI API validation failed: ", v>>)
  ELSE Returned("True")

\* generate_openai_response(); c is what the analysis request ends in.
\* An exception of validate_openai_setup is a plain Exception, so it is
\* caught by the last except clause.
generate_openai_response(api_key, v, c, analysis_type) ==
  LET setup == validate_openai_setup(api_key, v)
  IN  IF setup.raised
        THEN Raised("Exception",
                    <<"Failed to generate AI response: ">> \o setup.message)
      ELSE IF c = "RateLimitError"
        THEN Raised("Exception",
                    <<"OpenAI rate limit exceeded. Please try again later.">>)
      ELSE IF c = "AuthenticationError"
        THEN Raised("Exception",
                    <<"OpenAI authentication failed. Check API key.">>)
      ELSE IF c = "APIError"
        THEN Raised("Exception", <<"OpenAI API error: ", c>>)
      ELSE IF c \in Failures
        THEN Raised("Exception", <<"Failed to generate AI response: ", c>>)
      ELSE Returned([parsed |-> c = "json", analysis_type |-> analysis_type])

\* No call of the module has been made yet
Idle ==
  [fn |-> "none", api_key |-> FALSE, v |-> NA, c |-> NA,
   analysis_type |-> NA, outcome |-> Returned(NA)]

\* A caller runs validate_openai_setup
ValidateCalled(api_key, v) ==
  /\ call' = [fn |-> "validate_openai_setup", api_key |-> api_key, v |-> v,
              c |-> NA, analysis_type |-> NA,
              outcome |-> validate_openai_setup(api_key, v)]
  /\ UNCHANGED <<variant, db_manager, webhook_secret, cosmos, response_data,
                 provider, now, last, inflight>>

\* A caller runs generate_openai_response
GenerateCalled(api_key, v, c, analysis_type) ==
  /\ call' = [fn |-> "generate_openai_response", api_key |-> api_key,
              v |-> v, c |-> c, analysis_type |-> analysis_type,
              outcome |-> generate_openai_response(api_key, v, c,
                                                   analysis_type)]
  /\ UNCHANGED <<variant, db_manager, webhook_secret, cosmos, response_data,
                 provider, now, last, inflight>>

\* ------------------------------------------------------ specification
Init ==
  /\ variant \in {AppMain, RootMain}
  /\ db_manager \in BOOLEAN
  /\ webhook_secret \in BOOLEAN
  /\ cosmos = EmptyDict
  /\ response_data = EmptyDict
  /\ provider = EmptyDict
  /\ now = 0
  /\ last = Exchange("init", NA, 0, FALSE, 0, NA, NA, NA)
  /\ call = Idle
  /\ inflight = NoRequest

WebhookAuths == IF webhook_secret THEN AuthKinds ELSE {"none"}

Next ==
  \/ \E r \in RunIds : ProviderStep(r)
  \/ \E body \in StartBodies, ok \in DbOutcomes : app_start(body, ok)
  \/ \E r \in RunIds, ok1, ok2, ok3 \in DbOutcomes :
       app_get_status(r, ok1, ok2, ok3)
  \/ \E body \in Payloads, auth \in WebhookAuths, ok \in DbOutcomes :
       app_webhook(body, auth, ok)
  \/ \E body \in StartBodies, ok \in DbOutcomes : main_start(body, ok)
  \/ \E r \in RunIds, ok1, ok2 \in DbOutcomes :
       main_get_status(r, ok1, ok2)
  \/ \E body \in Payloads, auth \in WebhookAuths, ok \in DbOutcomes :
       main_webhook(body, auth, ok)
  \/ \E ok \in DbOutcomes : app_list_responses(ok)
  \/ \E ok \in DbOutcomes : app_debug(ok)
  \/ \E okStore, okGet \in DbOutcomes : main_test_storage(okStore, okGet)
  \/ \E ok \in DbOutcomes : main_list_responses(ok)
  \/ main_debug

Spec == Init /\ [][Next]_vars

\* The callers of app/responses.py: no handler calls the module, so its
\* functions are run on their own, under either application
NextResponses ==
  \/ \E api_key \in BOOLEAN, v \in {"ok"} \cup Failures :
       ValidateCalled(api_key, v)
  \/ \E api_key \in BOOLEAN, v \in {"ok"} \cup Failures,
        c \in Answers \cup Failures, ty \in AnalysisTypes :
       GenerateCalled(api_key, v, c, ty)

SpecResponses == Init /\ [][NextResponses]_vars

\* The webhook bodies of the scenarios below
RacePayloads ==
  {JDict([id |-> r, status |-> s]) : r \in RunIds,
                                     s \in {"completed", "failed"}}

\* A client that also asks for /edit and /rollback
NextRoutes ==
  \/ \E r \in RunIds : ProviderStep(r)
  \/ \E body \in StartBodies, ok \in DbOutcomes :
       app_start(body, ok) \/ main_start(body, ok)
  \/ \E r \in RunIds, ok1, ok2, ok3 \in DbOutcomes :
       app_get_status(r, ok1, ok2, ok3) \/ main_get_status(r, ok1, ok2)
  \/ \E body \in RacePayloads, auth \in WebhookAuths, ok \in DbOutcomes :
       app_webhook(body, auth, ok) \/ main_webhook(body, auth, ok)
  \/ \E path \in UnroutedPaths, r \in RunIds : app_not_found(path, r)
  \/ \E path \in UnroutedPaths, method \in Methods, r \in RunIds :
       catch_all(path, method, r)

SpecRoutes == Init /\ [][NextRoutes]_vars

\* Two workers: one serves a status poll in two steps, the other serves
\* submissions and webhooks meanwhile
NextRace ==
  \/ \E r \in RunIds : ProviderStep(r)
  \/ \E body \in StartBodies, ok \in DbOutcomes :
       app_start(body, ok) \/ main_start(body, ok)
  \/ \E body \in RacePayloads, auth \in WebhookAuths, ok \in DbOutcomes :
       app_webhook(body, auth, ok) \/ main_webhook(body, auth, ok)
  \/ \E r \in RunIds, ok1, ok2 \in DbOutcomes : PollBegins(r, ok1, ok2)
  \/ \E ok2, ok3 \in DbOutcomes : PollEnds(ok2, ok3)

SpecRace == Init /\ [][NextRace]_vars

\* A client that keeps polling.  The requests of Next stop at MaxClock;
\* this poll goes on, and past MaxClock the clock keeps only whether an
\* even or an odd number of ticks went by.  The provider answers the
\* poll and Cosmos answers every call of it.
Tick(t) ==
  IF t < MaxClock THEN t + 1
  ELSE IF t = MaxClock THEN MaxClock + 1 ELSE MaxClock

KeepsPolling(run_id) ==
  /\ run_id \in DOMAIN provider
  /\ \E polled \in {[err |-> FALSE, status |-> provider[run_id].status,
                      output_text |-> provider[run_id].output_text]} :
       \E r \in {IF variant = AppMain
                   THEN app_get_status_result(Store, run_id, polled, now,
                                              TRUE, TRUE, TRUE)
                   ELSE main_get_status_result(Store, run_id, polled, now,
                                               TRUE, TRUE)} :
         /\ cosmos' = r.S.db
         /\ response_data' = r.S.mem
         /\ last' = r.x
         /\ now' = IF r.x.wrote THEN Tick(now) ELSE now
  /\ UNCHANGED <<Config, call, inflight, provider>>

\* test_webhook.py: one client submits one run and polls it; the run gets
\* the first id the provider hands out
LiveRuns == {"r1"}

NextLive ==
  \/ \E r \in LiveRuns : ProviderStep(r)
  \/ \E body \in StartBodies, ok \in DbOutcomes :
       /\ DOMAIN provider = {}
       /\ app_start(body, ok) \/ main_start(body, ok)
  \/ \E r \in LiveRuns : KeepsPolling(r)

\* test_webhook.py polls every 5 seconds: the poll of a submitted run is
\* never put off for ever
SpecLive ==
  /\ Init
  /\ [][NextLive]_vars
  /\ \A r \in LiveRuns : WF_vars(KeepsPolling(r))

\* ------------------------------------------------- reading the model
\* The record a get of run_id returns when Cosmos answers
Stored(S, run_id) == get_response_data(S, run_id, TRUE)

StoredStatus(S, run_id) ==
  IF Stored(S, run_id) = None THEN NA
  ELSE DictGet(Stored(S, run_id)[1], "status", NA)

\* The report text kept for a run: "response" in app/main.py,
\* response_object.output_text in main.py
StoredReport(S, run_id) ==
  IF Stored(S, run_id) = None THEN NA
  ELSE IF variant = AppMain
    THEN DictGet(Stored(S, run_id)[1], "response", NoneStr)
  ELSE DictGet(DictGet(Stored(S, run_id)[1], "response_object", EmptyDict),
               "output_text", NoneStr)

\* The webhook payload kept in a record
StoredPayload(S, run_id) ==
  IF Stored(S, run_id) = None THEN JNull
  ELSE IF variant = AppMain
    THEN DictGet(Stored(S, run_id)[1], "webhook_payload", JNull)
  ELSE DictGet(Stored(S, run_id)[1], "webhook_data", JNull)

\* This step served a request (a provider step changes neither)
Served == last' # last \/ now' # now

Terminal == {"completed", "failed"}

\* POST /webhook with this body and credential is served in this step
WebhookServed(body, auth) ==
  \E ok \in DbOutcomes :
    app_webhook(body, auth, ok) \/ main_webhook(body, auth, ok)

\* GET /status/<run_id> is served in this step
StatusServed(run_id) ==
  \E ok1, ok2, ok3 \in DbOutcomes :
    app_get_status(run_id, ok1, ok2, ok3) \/ main_get_status(run_id, ok1, ok2)

\* POST /start with this body is served in this step
StartServed(body) ==
  \E ok \in DbOutcomes : app_start(body, ok) \/ main_start(body, ok)

\* The request passes the handler's credential check
CredentialAccepted(auth) == ~webhook_secret \/ auth = "valid"

\* A body that carries no run id at all
NoRunId(body) == body.kind # "dict" \/ DOMAIN body.d = {}

\* The body names run r in one of the places a run id is carried
Names(body, r) ==
  /\ body.kind = "dict"
  /\ \/ DictGet(body.d, "id", NoneStr) = r
     \/ DictGet(body.d, "run_id", NoneStr) = r
     \/ DictGet(DictGet(body.d, "response", EmptyDict), "id", NoneStr) = r
     \/ DictGet(DictGet(body.d, "data", EmptyDict), "id", NoneStr) = r

\* What a get of run_id returns after this step; ok is the outcome of
\* its Cosmos read
GetAfter(run_id, ok) ==
  get_response_data([db |-> cosmos', mem |-> response_data'], run_id, ok)

\* The fields in which the handlers and the Cosmos manager put the time
\* of a write, and the times a record carries in them
StampKeys ==
  {"created_at", "started_at", "updated_at", "last_checked", "completed_at",
   "webhook_received_at"}

Stamps(d) == {d[k] : k \in DOMAIN d \cap StampKeys}

\* A handler's put or update of run_id is served in this step, and the
\* Cosmos call of that write fails
WriteFailing(run_id) ==
  /\ db_manager
  /\ last'.wrote /\ last'.rid = run_id
  /\ \/ \E body \in StartBodies :
          app_start(body, FALSE) \/ main_start(body, FALSE)
     \/ \E ok1, ok3 \in DbOutcomes :
          \/ app_get_status(run_id, ok1, FALSE, ok3)
          \/ main_get_status(run_id, ok1, FALSE)
     \/ \E body \in Payloads, auth \in WebhookAuths :
          app_webhook(body, auth, FALSE) \/ main_webhook(body, auth, FALSE)
     \/ \E okGet \in DbOutcomes : main_test_storage(FALSE, okGet)

\* The History Entries of a run: the documents of the container that
\* carry its run_id and are not its run record, and the entries of a
\* history field of its in-memory record
HistoryEntries(S, run_id) ==
  {S.db[id] : id \in {i \in DOMAIN S.db :
                        /\ DictGet(S.db[i], "run_id", NoneStr) = run_id
                        /\ DictGet(S.db[i], "type", NoneStr) # DocType}}
  \cup (IF run_id \in DOMAIN S.mem /\ "history" \in DOMAIN S.mem[run_id]
          THEN {S.mem[run_id]["history"][i] :
                  i \in DOMAIN S.mem[run_id]["history"]}
          ELSE {})

StoreAfter == [db |-> cosmos', mem |-> response_data']

\* ------------------------------------------------------------ claims

\* C1: with a webhook secret configured, a POST /webhook whose token or
\* signature is wrong or missing is answered 401 or 403 and leaves the
\* Cosmos container and the in-memory fallback as they were.
C1_BadCredentialRejected ==
  [][\A body \in Payloads, auth \in {"none", "wrong"} :
       (webhook_secret /\ WebhookServed(body, auth))
         => (last'.code \in {401, 403}
             /\ UNCHANGED <<cosmos, response_data>>)]_vars

\* C2: a completed webhook applied a second time to the same run_id with
\* the same payload leaves the stored record as the first application
\* left it.
C2_WebhookIdempotent ==
  [][\A body \in Payloads, auth \in AuthKinds, r \in RunIds :
       (/\ last.op = "webhook" /\ last.code = 200 /\ last.rid = r
        /\ StoredStatus(Store, r) = "completed"
        /\ WebhookServed(body, auth)
        /\ last'.code = 200 /\ last'.rid = r
        /\ StoredPayload(Store, r) =
             (IF variant = AppMain THEN app_webhook_payload(body, auth)
                                   ELSE body))
         => Stored(Store, r)' = Stored(Store, r)]_vars

\* C3: once the stored status of a run is completed, no request makes it
\* running, started, queued, in_progress or unknown.
C3_CompletedStays ==
  [][\A r \in RunIds :
       StoredStatus(Store, r) = "completed"
         => StoredStatus(Store, r)' \notin
              {"running", "started", "queued", "in_progress", "unknown"}]_vars

\* C4: the status of every stored run is one of running, completed,
\* failed and rolled_back.
C4_StatusDomain ==
  \A r \in RunIds :
    Stored(Store, r) # None
      => StoredStatus(Store, r) \in
           {"running", "completed", "failed", "rolled_back"}

\* C5: GET /status/{run_id} for a run that was started and that the
\* provider has not finished answers status running.
C5_FreshRunRunning ==
  (/\ last.op = "status"
   /\ last.rid \in DOMAIN provider
   /\ provider[last.rid].status \in ProviderPending)
    => (last.code = 200 /\ last.status = "running")

\* C6: a status poll of a run whose stored status is not terminal, to
\* which the provider answers completed, leaves the stored run completed
\* with the provider's output text as report and completed_at set, and
\* answers completed with that report.
C6_PollCompletes ==
  [][\A r \in RunIds :
       (/\ Served /\ last'.op = "status" /\ last'.rid = r
        /\ Stored(Store, r) # None
        /\ StoredStatus(Store, r) \notin Terminal
        /\ last'.openai_status = "completed")
         => (/\ StoredStatus(Store, r)' = "completed"
             /\ StoredReport(Store, r)' = provider[r].output_text
             /\ "completed_at" \in DOMAIN Stored(Store, r)'[1]
             /\ last'.status = "completed"
             /\ last'.report = provider[r].output_text)]_vars

C8_PollFails ==
  [][\A r \in RunIds :
       (/\ Served /\ last'.op = "status" /\ last'.rid = r
        /\ StoredStatus(Store, r) \in {"running", "started"}
        /\ last'.openai_status \in {"failed", "cancelled"})
         => StoredStatus(Store, r)' = "failed"]_vars

\* C9: POST /start with no query or an empty one is answered 400, makes
\* no provider call and writes no record.
C9_EmptyQueryRejected ==
  [][\A body \in StartBodies :
       (/\ StartServed(body)
        /\ (~JTruthy(body) \/ DictGet(body.d, "query", "") = ""))
         => (/\ last'.code = 400 /\ last'.calls = 0
             /\ UNCHANGED <<cosmos, response_data>>)]_vars

\* C10: a POST /start that succeeds is answered 202 with a non-empty
\* run_id, and the Run Store holds a record for that run_id.
C10_StartAccepted ==
  (last.op = "start" /\ last.code \in {200, 201, 202})
    => (/\ last.code = 202
        /\ Truthy(last.rid) /\ last.rid # NA
        /\ Stored(Store, last.rid) # None)

\* C11: GET /status/{run_id} for a run_id of which neither the Cosmos
\* container nor the in-memory fallback holds a record is answered 404,
\* whether the Cosmos read succeeds or fails; it makes no provider call
\* and leaves both stores as they were.
C11_UnknownRunNotFound ==
  [][\A r \in RunIds :
       (/\ last'.op = "status" /\ last'.rid = r
        /\ Stored(Store, r) = None
        /\ StatusServed(r))
         => (/\ last'.code = 404 /\ last'.calls = 0
             /\ UNCHANGED <<cosmos, response_data>>)]_vars

\* C11 witness: a run_id without record was asked for while the Run Store
\* holds another run, and the answer was 404
C11_Witness ==
  /\ last.op = "status" /\ last.code = 404
  /\ Stored(Store, last.rid) = None
  /\ \E r \in RunIds : Stored(Store, r) # None

\* C12: a POST /webhook that passes the credential check and whose body
\* carries no run id (not JSON, null, a JSON array, an empty object) is
\* answered 400 and leaves both stores as they were.
C12_NoRunIdRejected ==
  [][\A body \in Payloads, auth \in AuthKinds :
       (/\ WebhookServed(body, auth)
        /\ CredentialAccepted(auth)
        /\ NoRunId(body))
         => (/\ last'.op = "webhook" /\ last'.code = 400
             /\ UNCHANGED <<cosmos, response_data>>)]_vars

\* C13: when POST /webhook is answered 200 for a body that names run r,
\* the record of r exists afterwards, keeps the payload, and has the
\* status and the report text the body carries.
C13_AcceptedWebhookApplied ==
  [][\A body \in Payloads, auth \in AuthKinds, r \in RunIds :
       (/\ WebhookServed(body, auth)
        /\ last'.op = "webhook" /\ last'.code = 200
        /\ Names(body, r))
         => (/\ Stored(Store, r)' # None
             /\ StoredPayload(Store, r)' =
                  (IF variant = AppMain THEN app_webhook_payload(body, auth)
                                        ELSE body)
             /\ "status" \in DOMAIN body.d
                  => StoredStatus(Store, r)' = body.d["status"]
             /\ "output_text" \in DOMAIN body.d
                  => StoredReport(Store, r)' = body.d["output_text"])]_vars

\* C14: get_response_data returns None for a run_id only when neither the
\* Cosmos container nor the in-memory fallback holds a record of it, also
\* when the Cosmos read fails.
C14_AbsenceOnlyWhenAbsent ==
  \A r \in RunIds, ok \in DbOutcomes :
    get_response_data(Store, r, ok) = None
      => (r \notin DOMAIN response_data /\ QueryItems(cosmos, r) = {})

\* C15: after a handler's put of a run (start, test-storage) or its update
\* of a run that has a record (status poll, webhook), whichever of the
\* Cosmos calls failed, a get of that run returns the record this last
\* write produced: it carries the time of the write.
C15_LastWriteWins ==
  [][\A r \in RunIds \cup {TestRunId} :
       (/\ Served /\ last'.wrote /\ last'.rid = r
        /\ last'.code \in {200, 202}
        /\ (last'.op \in {"start", "test-storage"}
              \/ Stored(Store, r) # None))
         => (/\ GetAfter(r, TRUE) # None
             /\ now \in Stamps(GetAfter(r, TRUE)[1]))]_vars

\* C16: a put or update of a run whose Cosmos call fails does not fail the
\* request, and what it wrote is returned by the gets that follow, with
\* Cosmos still failing or answering again.
C16_FallbackOnUnavailable ==
  [][\A r \in RunIds \cup {TestRunId} :
       (/\ WriteFailing(r)
        /\ (last'.op \in {"start", "test-storage"}
              \/ Stored(Store, r) # None))
         => (/\ last'.code \in {200, 202}
             /\ \A ok \in DbOutcomes :
                  /\ GetAfter(r, ok) # None
                  /\ now \in Stamps(GetAfter(r, ok)[1]))]_vars

\* C17: no status poll and no webhook changes the query of a record in
\* the Cosmos container or in the in-memory fallback, whatever the payload
\* carries, and the query a start stores is the one it was given.
C17_QueryImmutable ==
  [][/\ (Served /\ last'.op \in {"status", "webhook"})
         => /\ \A id \in DOMAIN cosmos \cap DOMAIN cosmos' :
                 DictGet(cosmos'[id], "query", NoneStr)
                   = DictGet(cosmos[id], "query", NoneStr)
            /\ \A id \in DOMAIN response_data \cap DOMAIN response_data' :
                 DictGet(response_data'[id], "query", NoneStr)
                   = DictGet(response_data[id], "query", NoneStr)
     /\ \A body \in StartBodies :
          (/\ last'.op = "start" /\ last'.code \in {200, 202}
           /\ StartServed(body))
            => (/\ GetAfter(last'.rid, TRUE) # None
                /\ GetAfter(last'.rid, TRUE)[1]["query"] = body.d["query"])
    ]_vars

\* C17 witness: a run submitted with query q1 has taken in a webhook whose
\* payload carries a query field of its own, and was polled or notified
\* last
C17_Witness ==
  /\ last.op \in {"status", "webhook"} /\ last.code = 200
  /\ Stored(Store, last.rid) # None
  /\ Stored(Store, last.rid)[1]["query"] = "q1"
  /\ StoredPayload(Store, last.rid).kind = "dict"
  /\ DictGet(StoredPayload(Store, last.rid).d, "query", NoneStr) = "q2"

\* C18: no request removes a run id from the Cosmos container or from the
\* in-memory fallback.
C18_NoRunRemoved ==
  [][/\ DOMAIN cosmos \subseteq DOMAIN cosmos'
     /\ DOMAIN response_data \subseteq DOMAIN response_data']_vars

\* C18 witness: the Run Store holds every run the provider accepted, as
\* many as it hands out, after one of them took an update
C18_Witness ==
  /\ DOMAIN provider = RunIds
  /\ \A r \in RunIds : Stored(Store, r) # None
  /\ last.op \in {"status", "webhook"} /\ last.wrote /\ last.code = 200
  /\ now - 1 \in Stamps(Stored(Store, last.rid)[1])

\* C19: a step that makes the stored status of a run completed adds a
\* History Entry with the run_id, the time and the report text, and no
\* step changes or removes a History Entry.
C19_CompletionAppendsHistory ==
  [][\A r \in RunIds :
       /\ HistoryEntries(Store, r) \subseteq HistoryEntries(StoreAfter, r)
       /\ (/\ StoredStatus(Store, r) # "completed"
           /\ StoredStatus(StoreAfter, r) = "completed")
            => \E h \in HistoryEntries(StoreAfter, r)
                         \ HistoryEntries(Store, r) :
                 /\ DictGet(h, "run_id", NoneStr) = r
                 /\ DictGet(h, "timestamp", -1) = now
                 /\ DictGet(h, "report", NoneStr)
                      = StoredReport(StoreAfter, r)]_vars

\* C20 (as the spec has it): a POST /start whose provider call fails and a
\* GET /status whose provider poll fails are answered 500.
C20_ProviderFailure500 ==
  [][/\ \A body \in StartBodies :
          (/\ last'.op = "start" /\ last'.calls = 1
           /\ provider' = provider
           /\ StartServed(body))
            => last'.code = 500
     /\ \A r \in RunIds :
          (/\ last'.op = "status" /\ last'.rid = r /\ last'.calls = 1
           /\ last'.openai_status = "error"
           /\ StatusServed(r))
            => last'.code = 500]_vars

\* C20 (amended): a POST /start whose provider call fails is answered 500
\* and writes nothing; a GET /status whose provider poll fails is answered
\* 200 with the stored status, and leaves the record as it was.
C20_ProviderFailureSurfaced ==
  [][/\ \A body \in StartBodies :
          (/\ last'.op = "start" /\ last'.calls = 1
           /\ provider' = provider
           /\ StartServed(body))
            => (last'.code = 500 /\ UNCHANGED <<cosmos, response_data>>)
     /\ \A r \in RunIds :
          (/\ last'.op = "status" /\ last'.rid = r /\ last'.calls = 1
           /\ last'.openai_status = "error"
           /\ StatusServed(r))
            => (/\ last'.code = 200
                /\ last'.status = StoredStatus(Store, r)
                /\ UNCHANGED <<cosmos, response_data>>)]_vars

\* C20 witness: the poll of a run the provider knows failed, and the
\* answer was 200 with the stored status
C20_Witness ==
  /\ last.op = "status" /\ last.calls = 1 /\ last.openai_status = "error"
  /\ last.code = 200
  /\ last.rid \in DOMAIN provider
  /\ last.status = StoredStatus(Store, last.rid)


\* Every id a record can be stored or asked for under
AllIds == RunIds \cup {GhostId, TestRunId}

\* C25 (as the spec has it): a step that stores a record under a run id
\* that had none is a POST /start.
C25_OnlySubmitCreates ==
  [][\A r \in AllIds :
       (Stored(Store, r) = None /\ Stored(StoreAfter, r) # None)
         => last'.op = "start"]_vars

\* C25 (amended): a step that stores a record under a run id that had
\* none is a POST /start or the storage self-test GET /test-storage; a
\* GET /status or POST /webhook naming a run id with no record leaves
\* the Cosmos container and the in-memory dict as they were, and an
\* update of such a run id returns False and the store it was given.
C25_PollAndWebhookCreateNothing ==
  [][/\ (cosmos' # cosmos \/ response_data' # response_data)
          => \A r \in AllIds :
               (Stored(Store, r) = None /\ Stored(StoreAfter, r) # None)
                 => (last'.op \in {"start", "test-storage"}
                     /\ last'.rid = r)
     /\ (/\ last'.op \in {"status", "webhook"} /\ last'.rid \in AllIds
         /\ Served
         /\ Stored(Store, last'.rid) = None)
          => /\ UNCHANGED <<cosmos, response_data>>
             /\ \A ok \in DbOutcomes :
                  update_response_data(Store, last'.rid,
                                       [status |-> "completed"], now, ok)
                    = [ok |-> FALSE, S |-> Store]]_vars

\* C25 witness: a webhook naming a run id with no record was answered 200
\* while another run is stored, and the named id still has no record
C25_Witness ==
  /\ last.op = "webhook" /\ last.code = 200 /\ last.wrote
  /\ Stored(Store, last.rid) = None
  /\ \E q \in RunIds : Stored(Store, q) # None


\* The body carries a job status and it is not completed
ReportsNotCompleted(body) ==
  /\ body.kind = "dict"
  /\ "status" \in DOMAIN body.d
  /\ body.d["status"] # "completed"

\* C26: a POST /webhook whose payload reports a status other than
\* completed does not make the stored status of the run it names
\* completed.
C26_OnlyCompletedCompletes ==
  [][\A body \in Payloads, auth \in AuthKinds, r \in RunIds :
       (/\ last'.op = "webhook" /\ last'.rid = r
        /\ ReportsNotCompleted(body)
        /\ StoredStatus(Store, r) # "completed"
        /\ WebhookServed(body, auth))
         => StoredStatus(StoreAfter, r) # "completed"]_vars


\* C27: every run id for which a get returns a record is among the
\* records GET /responses lists.
C27_ListedWhenStored ==
  last.op = "responses" /\ last.code = 200
    => \A r \in AllIds : Stored(Store, r) # None => r \in last.listed


\* C28: a POST /start whose call of the provider fails leaves the Cosmos
\* container and the in-memory dict exactly as they were: no record is
\* put and none is changed.
C28_FailedStartWritesNothing ==
  [][\A body \in StartBodies :
       (/\ last'.op = "start" /\ last'.calls = 1 /\ last'.rid = NA
        /\ StartServed(body))
         => (/\ cosmos' = cosmos /\ response_data' = response_data
             /\ \A r \in AllIds : Stored(StoreAfter, r) = Stored(Store, r))]_vars

\* C28 witness: a submission failed at the provider while an earlier run
\* is stored
C28_Witness ==
  /\ last.op = "start" /\ last.calls = 1 /\ last.rid = NA
  /\ last.code = 500
  /\ \E q \in RunIds : Stored(Store, q) # None


\* C29: a GET /status/<run_id> whose poll of the provider fails leaves the
\* record of the run as it was, writes nothing, and answers with the
\* status the record had before the request.
C29_FailedPollLeavesRecord ==
  [][\A r \in RunIds :
       (/\ last'.op = "status" /\ last'.rid = r /\ last'.calls = 1
        /\ last'.openai_status = "error"
        /\ StatusServed(r))
         => (/\ Stored(StoreAfter, r) = Stored(Store, r)
             /\ ~last'.wrote /\ now' = now
             /\ last'.status = StoredStatus(Store, r))]_vars

\* C29 witness: the poll of a run whose record is completed failed, and
\* the answer carried completed
C29_Witness ==
  /\ last.op = "status" /\ last.calls = 1 /\ last.openai_status = "error"
  /\ last.status = "completed"
  /\ StoredStatus(Store, last.rid) = "completed"


\* C22: a rollback of a completed run, asked for right after an edit of
\* that run, is answered 200, leaves the run with status rolled_back and
\* with the report text of one of its History Entries, and removes no
\* History Entry.
C22_RollbackRestores ==
  [][\A r \in RunIds :
       (/\ last.op = "edit" /\ last.rid = r
        /\ last'.op = "rollback" /\ last'.rid = r
        /\ StoredStatus(Store, r) = "completed")
         => (/\ last'.code = 200
             /\ StoredStatus(StoreAfter, r) = "rolled_back"
             /\ \E h \in HistoryEntries(Store, r) :
                  DictGet(h, "report", NoneStr) = StoredReport(StoreAfter, r)
             /\ HistoryEntries(Store, r)
                  \subseteq HistoryEntries(StoreAfter, r))]_vars


\* The failure of the provider a call of the module ran into
Cause(k) ==
  IF ~k.api_key THEN "no_key"
  ELSE IF k.v \in Failures THEN k.v
  ELSE IF k.fn = "generate_openai_response" /\ k.c \in Failures THEN k.c
  ELSE "none"

\* Every call the callers can make, with its outcome
Calls ==
  {[fn |-> "validate_openai_setup", api_key |-> a, v |-> v, c |-> NA,
    analysis_type |-> NA, outcome |-> validate_openai_setup(a, v)]
     : a \in BOOLEAN, v \in {"ok"} \cup Failures}
  \cup {[fn |-> "generate_openai_response", api_key |-> a, v |-> v,
         c |-> c, analysis_type |-> "basic",
         outcome |-> generate_openai_response(a, v, c, "basic")]
          : a \in BOOLEAN, v \in {"ok"} \cup Failures,
            c \in Answers \cup Failures}

\* C21: a call that ran into the provider's rate limit, or into its
\* rejection of the credential, raises an error whose kind no call of the
\* same function raises for any other failure.
C21_ErrorKindsDistinct ==
  (call.outcome.raised
   /\ Cause(call) \in {"RateLimitError", "AuthenticationError"})
    => \A k \in Calls :
         (k.fn = call.fn /\ k.outcome.raised /\ Cause(k) # Cause(call))
           => k.outcome.kind # call.outcome.kind


\* C23: a status poll of a run began while the run was not completed and
\* saw a job that was not completed; a webhook then completed the run;
\* when the poll writes, the stored status stays completed and the stored
\* report stays the one the webhook left.
C23_PollKeepsCompletion ==
  [][\A r \in RunIds :
       (/\ inflight # NoRequest /\ inflight.rid = r
        /\ inflight' = NoRequest
        /\ DictGet(inflight.local_data, "status", NA) # "completed"
        /\ inflight.polled.status # "completed"
        /\ last.op = "webhook" /\ last.rid = r /\ last.code = 200
        /\ StoredStatus(Store, r) = "completed")
         => (/\ StoredStatus(StoreAfter, r) = "completed"
             /\ StoredReport(StoreAfter, r) = StoredReport(Store, r))]_vars


\* The run id the request served, or finished, in this step works on
Target ==
  IF inflight # NoRequest /\ inflight' = NoRequest THEN inflight.rid
  ELSE last'.rid

\* What the Cosmos container and the in-memory dict hold under a run id
RecordsOf(S, run_id) ==
  <<IF run_id \in DOMAIN S.db THEN Some(S.db[run_id]) ELSE None,
    IF run_id \in DOMAIN S.mem THEN Some(S.mem[run_id]) ELSE None>>

\* C24: a start, status poll or webhook for one run id, served while a
\* poll of any run is in flight or not, leaves what is stored under every
\* other run id as it was.
C24_OtherRunsUntouched ==
  [][\A b \in AllIds :
       b # Target
         => (/\ RecordsOf(StoreAfter, b) = RecordsOf(Store, b)
             /\ Stored(StoreAfter, b) = Stored(Store, b))]_vars

\* C24 witness: run r2 was submitted after the poll of r1 that was
\* answered last had read the clock, and both runs are stored
C24_Witness ==
  /\ last.op = "status" /\ last.wrote /\ last.rid = "r1"
  /\ inflight = NoRequest
  /\ Stored(Store, "r1") # None /\ Stored(Store, "r2") # None
  /\ \A t2 \in Stamps(Stored(Store, "r2")[1]) :
       \A t1 \in Stamps(Stored(Store, "r1")[1]) : t2 > t1


\* C30: once the provider's job of a stored run has ended (completed with
\* any text, failed or cancelled) and the client keeps polling, the
\* stored status of the run becomes completed or failed and stays so.
C30_RunLeavesRunning ==
  \A r \in LiveRuns :
    (/\ r \in DOMAIN provider
     /\ provider[r].status \in ProviderFinal
     /\ Stored(Store, r) # None)
      ~> [](StoredStatus(Store, r) \in Terminal)

====
